---- MODULE Spec2Model ----
(***************************************************************************)
(* Draft-state accounting and recommendation engine of the fantasy draft   *)
(* assistant (src/src/team_tracker.py), as it is driven by src/main.py and *)
(* src/streamlit_app.py, with the pool loaders (src/src/player_pool.py,    *)
(* src/src/player_pool_gsheet.py) and the pool synchronisation             *)
(* (src/src/sync_player_pool.py).                                          *)
(*                                                                         *)
(* Data representation                                                     *)
(*   - a Python str that the code lower()s or strip()s is a sequence of    *)
(*     one-character strings, so that both conversions are computed;       *)
(*   - a DataFrame is the sequence of its rows, in index order, and has    *)
(*     the columns the code reads (streamlit_app.py checks them before any *)
(*     call); only the columns the engine reads are kept;                  *)
(*   - a ledger Price cell is [kind, v]: kind "num" is a number v, kind    *)
(*     "str" a cell the sheet reader left as non-numeric text, kind "nan"  *)
(*     the float NaN that pd.to_numeric makes of such a cell;              *)
(*   - a dict whose iteration order the code relies on is a sequence of    *)
(*     [k, v] items with distinct keys (insertion order); a dict that is   *)
(*     only read with .get is a function on its key set;                   *)
(*   - weights and scores are counted in halves (1 is 0.5, 2 is 1.0): the  *)
(*     values used are exact binary floats, so the products and the        *)
(*     comparisons of the code are the integer ones;                       *)
(*   - draft_sheet and player_sheet are the records of the two remote      *)
(*     worksheets, draft_board and player_pool the frames loaded from      *)
(*     them; a specification without a remote part leaves them empty.      *)
(***************************************************************************)
EXTENDS Integers, Sequences, FiniteSets, TLC

VARIABLES draft_sheet, player_sheet, draft_board, player_pool, position_counts,
          target_build, position_weights, priority_gaps, result

vars == <<draft_sheet, player_sheet, draft_board, player_pool, position_counts,
          target_build, position_weights, priority_gaps, result>>

-----------------------------------------------------------------------------
(* Bounds of the model *)

MaxLedger == 2

MaxPool == 2

MaxAvailable == 3

MaxPrice == 2

MaxTarget == 2

MaxCount == 1

MaxRecommendations == 2

\* the length of the top-ranked slice of the decoy strategy: head(100) in the
\* code, taken small so that pools longer than the slice are reached
TopSlice == 2

-----------------------------------------------------------------------------
(* Strings *)

\* str.lower() on one character
LowerChar(c) ==
  CASE c = "A" -> "a"
    [] c = "B" -> "b"
    [] OTHER -> c

\* str.lower()
Lower(s) == [i \in 1..Len(s) |-> LowerChar(s[i])]

\* the characters str.strip() removes
IsSpace(c) == c = " "

RECURSIVE LStrip(_)
LStrip(s) ==
  IF s = <<>> THEN s
  ELSE IF IsSpace(Head(s)) THEN LStrip(Tail(s)) ELSE s

RECURSIVE RStrip(_)
RStrip(s) ==
  IF s = <<>> THEN s
  ELSE IF IsSpace(s[Len(s)]) THEN RStrip(SubSeq(s, 1, Len(s) - 1)) ELSE s

\* str.strip()
Strip(s) == RStrip(LStrip(s))

-----------------------------------------------------------------------------
(* Sequences and dicts *)

SeqsUpTo(S, n) == UNION {[1..k -> S] : k \in 0..n}

Range(s) == {s[i] : i \in DOMAIN s}

\* DataFrame.head(n) for n >= 0
HeadN(s, n) == SubSeq(s, 1, IF n < Len(s) THEN n ELSE Len(s))

\* dict.get(k, default) on a dict read only by key
DictGet(d, k, default) == IF k \in DOMAIN d THEN d[k] ELSE default

\* keys of an insertion-ordered dict
Keys(d) == {d[i].k : i \in DOMAIN d}

\* d[k] of an insertion-ordered dict
ItemValue(d, k) == d[CHOOSE i \in DOMAIN d : d[i].k = k].v

\* position of key k in the iteration order of d
KeyIndex(d, k) == CHOOSE i \in DOMAIN d : d[i].k = k

-----------------------------------------------------------------------------
(* get_my_team *)

DefaultBudget == 200

NumPrice(n) == [kind |-> "num", v |-> n]

StrPrice == [kind |-> "str", v |-> 0]

\* Series.sum() of the Price column of the selected rows, all numeric
RECURSIVE SumPrices(_)
SumPrices(rows) ==
  IF rows = <<>> THEN 0
  ELSE Head(rows).Price.v + SumPrices(Tail(rows))

\* Series.value_counts().to_dict() of the Position column
ValueCounts(rows) ==
  [p \in {rows[i].Position : i \in DOMAIN rows} |->
     Cardinality({i \in DOMAIN rows : rows[i].Position = p})]

\* get_my_team with the total taken over the whole board instead of my_picks
get_my_team_board_total(board, manager_name, budget) ==
  LET Mine(r) == Lower(r.DraftedBy) = Lower(manager_name)
      my_picks == SelectSeq(board, Mine)
      total_spent == SumPrices(board)
  IN  IF \E i \in DOMAIN board : board[i].Price.kind = "str"
      THEN [raised |-> TRUE]
      ELSE [raised |-> FALSE,
            roster |-> my_picks,
            spent |-> total_spent,
            remaining_budget |-> budget - total_spent,
            position_counts |-> ValueCounts(my_picks)]

\* get_my_team with the remaining budget floored at zero
get_my_team_floored(board, manager_name, budget) ==
  LET Mine(r) == Lower(r.DraftedBy) = Lower(manager_name)
      my_picks == SelectSeq(board, Mine)
      total_spent == SumPrices(my_picks)
  IN  IF \E i \in DOMAIN my_picks : my_picks[i].Price.kind = "str"
      THEN [raised |-> TRUE]
      ELSE [raised |-> FALSE,
            roster |-> my_picks,
            spent |-> total_spent,
            remaining_budget |-> IF budget < total_spent THEN 0 ELSE budget - total_spent,
            position_counts |-> ValueCounts(my_picks)]

\* A text Price among the picks makes the sum a str or a TypeError, and
\* budget - total_spent a TypeError: the call raises.
get_my_team(board, manager_name, budget) ==
  LET Mine(r) == Lower(r.DraftedBy) = Lower(manager_name)
      my_picks == SelectSeq(board, Mine)
      total_spent == SumPrices(my_picks)
  IN  IF \E i \in DOMAIN my_picks : my_picks[i].Price.kind = "str"
      THEN [raised |-> TRUE]
      ELSE [raised |-> FALSE,
            roster |-> my_picks,
            spent |-> total_spent,
            remaining_budget |-> budget - total_spent,
            position_counts |-> ValueCounts(my_picks)]

-----------------------------------------------------------------------------
(* get_available_players *)

\* Series.str.strip().str.lower() on one name
NormalizeName(s) == Lower(Strip(s))

\* get_available_players comparing the names without strip()
get_available_players_unstripped(pool, board) ==
  LET drafted_players == {Lower(board[i].Player) : i \in DOMAIN board}
      Undrafted(r) == Lower(r.Player) \notin drafted_players
  IN  SelectSeq(pool, Undrafted)

\* get_available_players dropping as many leading pool rows as there are picks
get_available_players_by_count(pool, board) ==
  SubSeq(pool, Len(board) + 1, Len(pool))

\* get_available_players filtering against the latest ledger entry only
get_available_players_latest_pick(pool, board) ==
  LET latest == IF board = <<>> THEN {} ELSE {NormalizeName(board[Len(board)].Player)}
      Undrafted(r) == NormalizeName(r.Player) \notin latest
  IN  SelectSeq(pool, Undrafted)

get_available_players(pool, board) ==
  LET drafted_players == {NormalizeName(board[i].Player) : i \in DOMAIN board}
      Undrafted(r) == NormalizeName(r.Player) \notin drafted_players
  IN  SelectSeq(pool, Undrafted)

\* the ledger after one more pick is appended to the sheet and loaded again
AppendedLedger(board, pick) == Append(board, pick)

-----------------------------------------------------------------------------
(* assess_positional_gaps and prioritize_positions *)

\* the weight of a position missing from position_weights: 0.5, in halves
DefaultWeight == 1

\* max(0, n)
Max0(n) == IF n > 0 THEN n ELSE 0

\* assess_positional_gaps with the gap floored at zero
assess_positional_gaps_clamped(counts, target) ==
  [i \in DOMAIN target |->
     [k |-> target[i].k, v |-> Max0(target[i].v - DictGet(counts, target[i].k, 0))]]

\* one item per key of target_build, in its iteration order
assess_positional_gaps(counts, target) ==
  [i \in DOMAIN target |->
     [k |-> target[i].k, v |-> target[i].v - DictGet(counts, target[i].k, 0)]]

\* the items before sorting, with the size of the gap instead of max(0, gap)
PriorityItemsAbsolute(counts, target, weights) ==
  [i \in DOMAIN target |->
     [k |-> target[i].k,
      v |-> (LET gap == target[i].v - DictGet(counts, target[i].k, 0)
             IN  IF gap < 0 THEN 0 - gap ELSE gap)
              * DictGet(weights, target[i].k, DefaultWeight)]]

\* the items before sorting, without max(0, ...)
PriorityItemsUnclamped(counts, target, weights) ==
  [i \in DOMAIN target |->
     [k |-> target[i].k,
      v |-> (target[i].v - DictGet(counts, target[i].k, 0))
              * DictGet(weights, target[i].k, DefaultWeight)]]

\* the dict gaps of prioritize_positions before it is sorted
PriorityItems(counts, target, weights) ==
  [i \in DOMAIN target |->
     [k |-> target[i].k,
      v |-> Max0(target[i].v - DictGet(counts, target[i].k, 0))
              * DictGet(weights, target[i].k, DefaultWeight)]]

\* insertion that puts x before the items of equal score
InsertDescBeforeTies(sorted, x) ==
  LET n == Cardinality({i \in DOMAIN sorted : sorted[i].v > x.v})
  IN  SubSeq(sorted, 1, n) \o <<x>> \o SubSeq(sorted, n + 1, Len(sorted))

\* x put into a descending sequence behind every item whose score is at
\* least its own
InsertDesc(sorted, x) ==
  LET n == Cardinality({i \in DOMAIN sorted : sorted[i].v >= x.v})
  IN  SubSeq(sorted, 1, n) \o <<x>> \o SubSeq(sorted, n + 1, Len(sorted))

\* the items left in the order they were inserted
SortedDescUnsorted(items) == items

\* sorted(items, key=score, reverse=True): descending, and stable (items of
\* equal score keep their order, also with reverse=True)
RECURSIVE SortedDesc(_)
SortedDesc(items) ==
  IF items = <<>> THEN <<>>
  ELSE InsertDesc(SortedDesc(SubSeq(items, 1, Len(items) - 1)), items[Len(items)])

prioritize_positions(counts, target, weights) ==
  SortedDesc(PriorityItems(counts, target, weights))

-----------------------------------------------------------------------------
(* recommend_players *)

\* the default of max_recommendations
DefaultMaxRecommendations == 10

\* recommend_players returning nothing once the budget is used up
recommend_players_budget_gated(available_pool, prioritized_positions, budget_remaining, max_recommendations) ==
  LET top_positions == {prioritized_positions[i].k :
                          i \in {j \in DOMAIN prioritized_positions :
                                   prioritized_positions[j].v > 0}}
      Top(r) == r.Position \in top_positions
      filtered == SelectSeq(available_pool, Top)
  IN  IF budget_remaining <= 0 THEN <<>> ELSE HeadN(filtered, max_recommendations)

\* budget_remaining is accepted and not read
recommend_players(available_pool, prioritized_positions, budget_remaining, max_recommendations) ==
  LET top_positions == {prioritized_positions[i].k :
                          i \in {j \in DOMAIN prioritized_positions :
                                   prioritized_positions[j].v > 0}}
      Top(r) == r.Position \in top_positions
      filtered == SelectSeq(available_pool, Top)
  IN  HeadN(filtered, max_recommendations)

-----------------------------------------------------------------------------
(* suggest_nominations *)

\* the default of max_suggestions
DefaultMaxSuggestions == 3

\* a decoy position has a score below 0.5: below 1, in halves
DecoyThreshold == 1

\* the rows of a pool whose Position is in a list of positions
AtPositions(pool, positions) ==
  LET At(r) == r.Position \in positions
  IN  SelectSeq(pool, At)

\* positions_filled with > in place of >=
PositionsFilledStrict(counts, target) ==
  {target[i].k : i \in {j \in DOMAIN target : DictGet(counts, target[j].k, 0) > target[j].v}}

\* positions_filled of the drain strategy
PositionsFilled(counts, target) ==
  {target[i].k : i \in {j \in DOMAIN target : DictGet(counts, target[j].k, 0) >= target[j].v}}

\* the drain strategy without the fallback to the whole pool
DrainNominationsNoFallback(available_pool, counts, target, max_suggestions) ==
  HeadN(AtPositions(available_pool, PositionsFilled(counts, target)), max_suggestions)

\* the drain strategy: the filtered pool, the whole pool when it is empty
DrainNominations(available_pool, counts, target, max_suggestions) ==
  LET pool == AtPositions(available_pool, PositionsFilled(counts, target))
  IN  HeadN(IF pool = <<>> THEN available_pool ELSE pool, max_suggestions)

\* DataFrame.sample(n): the n rows drawn without replacement, in any order
Samples(pool, n) ==
  {[i \in 1..n |-> pool[f[i]]] :
     f \in {g \in [1..n -> DOMAIN pool] : \A i, j \in 1..n : i # j => g[i] # g[j]}}

\* the decoy strategy: every outcome of the sampling
DecoyNominations(available_pool, priorities, max_suggestions) ==
  LET decoy_positions == {priorities[i].k :
                            i \in {j \in DOMAIN priorities : priorities[j].v < DecoyThreshold}}
      filtered == HeadN(AtPositions(available_pool, decoy_positions), TopSlice)
      pool == IF filtered = <<>> THEN HeadN(available_pool, TopSlice) ELSE filtered
  IN  Samples(pool, IF max_suggestions < Len(pool) THEN max_suggestions ELSE Len(pool))

\* top_positions of the target strategy with >= in place of >
TopPositionsNonNegative(priorities) ==
  {priorities[i].k : i \in {j \in DOMAIN priorities : priorities[j].v >= 0}}

\* top_positions of the target strategy
TopPositions(priorities) ==
  {priorities[i].k : i \in {j \in DOMAIN priorities : priorities[j].v > 0}}

\* the target strategy: the filtered pool, the whole pool when it is empty
TargetNominations(available_pool, priorities, max_suggestions) ==
  LET pool == AtPositions(available_pool, TopPositions(priorities))
  IN  HeadN(IF pool = <<>> THEN available_pool ELSE pool, max_suggestions)

\* suggest_nominations taking every unknown strategy for the default, drain
suggest_nominations_default_drain(available_pool, counts, target, priorities, strategy, max_suggestions) ==
  CASE strategy = "decoy" -> DecoyNominations(available_pool, priorities, max_suggestions)
    [] strategy = "target" -> {TargetNominations(available_pool, priorities, max_suggestions)}
    [] OTHER -> {DrainNominations(available_pool, counts, target, max_suggestions)}

\* the set of the frames a call can return: one frame, except for decoy;
\* an unknown strategy returns the empty pd.DataFrame()
suggest_nominations(available_pool, counts, target, priorities, strategy, max_suggestions) ==
  CASE strategy = "drain" -> {DrainNominations(available_pool, counts, target, max_suggestions)}
    [] strategy = "decoy" -> DecoyNominations(available_pool, priorities, max_suggestions)
    [] strategy = "target" -> {TargetNominations(available_pool, priorities, max_suggestions)}
    [] OTHER -> {<<>>}

-----------------------------------------------------------------------------
(* summarize_opponents *)

\* the float NaN in a Price cell
NaN == [kind |-> "nan", v |-> 0]

\* pd.to_numeric(errors="coerce") of a cell: text that is no number becomes NaN
ToNumeric(cell) == IF cell.kind = "str" THEN NaN ELSE cell

\* draft_board["Price"] = pd.to_numeric(draft_board["Price"], errors="coerce"):
\* the assignment is made on the caller's frame
CoercePrices(board) == [i \in DOMAIN board |-> [board[i] EXCEPT !.Price = ToNumeric(@)]]

\* the summary of one group of draft_board.groupby("Drafted By"): the rows
\* with that raw name; Series.sum() skips NaN
OpponentSummary(board, manager, starting_budget) ==
  LET InGroup(r) == r.DraftedBy = manager
      group == SelectSeq(board, InGroup)
      total_spent == SumPrices(group)
  IN  [Manager |-> manager, Spent |-> total_spent,
       Remaining |-> starting_budget - total_spent, PlayersDrafted |-> Len(group)]

\* the summaries appended by the loop: one for each group whose name is not
\* my_name up to letter case and surrounding whitespace
OpponentSummaries(board, my_name, starting_budget) ==
  {OpponentSummary(board, board[i].DraftedBy, starting_budget) :
     i \in {j \in DOMAIN board : Lower(Strip(board[j].DraftedBy)) # Lower(Strip(my_name))}}

\* sort_values(by="Remaining", ascending=False): the default sort is not
\* stable, rows of equal Remaining come in any order
SortedByRemaining(rows) ==
  {s \in [1..Cardinality(rows) -> rows] :
     /\ \A i, j \in DOMAIN s : i # j => s[i] # s[j]
     /\ \A i, j \in DOMAIN s : i < j => s[i].Remaining >= s[j].Remaining}

\* the outcomes of a call, on the frame with its prices coerced: sorting the
\* frame of no summaries, which has no column "Remaining", raises KeyError
summarize_opponents(board, my_name, starting_budget) ==
  LET summaries == OpponentSummaries(CoercePrices(board), my_name, starting_budget)
  IN  IF summaries = {} THEN {[raised |-> TRUE]}
      ELSE {[raised |-> FALSE, rows |-> s] : s \in SortedByRemaining(summaries)}

-----------------------------------------------------------------------------
(* sync_player_pool_with_draft *)

\* an empty cell of the worksheet: NaN after fillna("")
Blank == [kind |-> "blank", v |-> 0]

\* draft_df["Player_lower"] = draft_df["Player"].str.strip().str.lower():
\* the column is added to the caller's frame
WithPlayerLower(board) ==
  [i \in DOMAIN board |->
     [Player |-> board[i].Player, Position |-> board[i].Position,
      Price |-> board[i].Price, DraftedBy |-> board[i].DraftedBy,
      Player_lower |-> NormalizeName(board[i].Player)]]

\* the rows of the left merge for one record of the worksheet: one for each
\* ledger row of the same normalized name, one of empty cells when there is none
MergedRows(p, board) ==
  LET Same(r) == NormalizeName(r.Player) = NormalizeName(p.Player)
      matches == SelectSeq(board, Same)
      Synced(removed, price, manager) ==
        [Player |-> p.Player, Position |-> p.Position, Removed |-> removed,
         PricePaid |-> price, TeamDraftedBy |-> manager]
  IN  IF matches = <<>> THEN <<Synced(FALSE, Blank, <<>>)>>
      ELSE [i \in DOMAIN matches |->
              Synced(matches[i].Price.kind # "nan",
                     IF matches[i].Price.kind = "nan" THEN Blank ELSE matches[i].Price,
                     matches[i].DraftedBy)]

\* the rows written back to the worksheet
RECURSIVE Merged(_, _)
Merged(sheet, board) ==
  IF sheet = <<>> THEN <<>>
  ELSE MergedRows(Head(sheet), board) \o Merged(Tail(sheet), board)

\* the call: [raised, draft_df after the call, worksheet after the call]; a
\* worksheet of no records gives a frame without the column "Player"
sync_player_pool_with_draft(sheet, draft_df) ==
  IF sheet = <<>>
  THEN [raised |-> TRUE, draft_df |-> draft_df, worksheet |-> sheet]
  ELSE [raised |-> FALSE, draft_df |-> WithPlayerLower(draft_df),
        worksheet |-> Merged(sheet, draft_df)]

-----------------------------------------------------------------------------
(* load_player_pool, load_player_pool_from_gsheet *)

\* the characters [A-Z]
UpperLetters ==
  {"A", "B", "C", "D", "E", "F", "G", "H", "I", "J", "K", "L", "M",
   "N", "O", "P", "Q", "R", "S", "T", "U", "V", "W", "X", "Y", "Z"}

\* the longest prefix of s made of characters [A-Z]
RECURSIVE TakeUpper(_)
TakeUpper(s) ==
  IF s = <<>> \/ Head(s) \notin UpperLetters THEN <<>>
  ELSE <<Head(s)>> \o TakeUpper(Tail(s))

\* str.extract with the pattern anchored at the start of the string
ExtractPositionAnchored(s) == TakeUpper(s)

\* str.extract(r'([A-Z]+)') of one cell: the first match of the pattern,
\* searched from the left; <<>> stands for the NaN of a cell without a match
\* (a match is never empty), and of an empty or missing cell
RECURSIVE ExtractPosition(_)
ExtractPosition(s) ==
  IF s = <<>> THEN <<>>
  ELSE IF Head(s) \in UpperLetters THEN TakeUpper(s)
  ELSE ExtractPosition(Tail(s))

\* the columns kept, 'PLAYER NAME' and 'POS' renamed to Player and Position,
\* and the Position column replaced by its extraction
NormalizedRows(raw) ==
  [i \in DOMAIN raw |-> [Player |-> raw[i].Player, Position |-> ExtractPosition(raw[i].POS)]]

\* load_player_pool on the rows of a CSV file, an empty field read as NaN
\* (<<>>): a POS column of empty fields only is a float column, on which .str
\* raises AttributeError; dropna drops the rows without a Player
load_player_pool(raw) ==
  LET HasPlayer(r) == r.Player # <<>>
  IN  IF raw # <<>> /\ \A i \in DOMAIN raw : raw[i].POS = <<>>
      THEN [raised |-> TRUE]
      ELSE [raised |-> FALSE, rows |-> SelectSeq(NormalizedRows(raw), HasPlayer)]

\* load_player_pool_from_gsheet on the records of a worksheet, an empty
\* cell read as '' (<<>>): no record gives a frame without columns, on which
\* the column clean-up raises; no row is dropped
load_player_pool_from_gsheet(raw) ==
  IF raw = <<>> THEN [raised |-> TRUE]
  ELSE [raised |-> FALSE, rows |-> NormalizedRows(raw)]

-----------------------------------------------------------------------------
(* load_draft_board_from_gsheet and the script run of streamlit_app.py *)

\* pd.DataFrame(worksheet.get_all_records()): a new frame with one row for
\* each record of the worksheet, in sheet order
load_draft_board_from_gsheet(sheet) == [i \in DOMAIN sheet |-> sheet[i]]

\* the records of the PlayerPool worksheet as the loader reads them: the
\* columns Player and Position, the position not yet normalized
PlayerRecords(sheet) ==
  [i \in DOMAIN sheet |-> [Player |-> sheet[i].Player, POS |-> sheet[i].Position]]

\* st.session_state.my_name: "Bill" in the code, "b" here
MyName == <<"b">>

-----------------------------------------------------------------------------
(* Inputs *)

\* the name of the i-th row of a pool of distinct players: "a", "aa", ...
RowName(i) == [j \in 1..i |-> "a"]

\* pools of distinct players with the given positions, in rank order
RankedPools(positions, n) ==
  {[i \in DOMAIN ps |-> [Player |-> RowName(i), Position |-> ps[i]]] :
     ps \in SeqsUpTo(positions, n)}

Positions == {"QB", "RB", "WR"}

\* dicts read by key: a value for some of the keys
DictsOn(keys, values) == UNION {[S -> values] : S \in SUBSET keys}

\* the iteration orders of the dicts with keys among `keys`
KeyOrders(keys) ==
  {s \in SeqsUpTo(keys, Cardinality(keys)) :
     \A i, j \in DOMAIN s : i # j => s[i] # s[j]}

\* insertion-ordered dicts: every key order, every value
OrderedDicts(keys, values) ==
  UNION {{[i \in DOMAIN s |-> [k |-> s[i], v |-> t[i]]] : t \in [DOMAIN s -> values]} :
           s \in KeyOrders(keys)}

\* target builds: position -> count >= 0
TargetBuilds == OrderedDicts(Positions, 0..MaxTarget)

\* position counts as value_counts gives them: count >= 1 for the positions
\* present
PositionCounts == DictsOn(Positions, 1..MaxCount)

\* weights 0.0 and 1.0 (in halves) for some of QB and RB
PositionWeights == DictsOn({"QB", "RB"}, {0, 2})

\* priority mappings as prioritize_positions leaves them: sorted descending
PriorityMappings == {SortedDesc(d) : d \in OrderedDicts(Positions, {0, 1, 2})}

\* remaining budgets: overspent, and untouched
RemainingBudgets == {-1, DefaultBudget}

\* player names: "B", " b ", "a" and "a "
PlayerNames == {<<"B">>, <<" ", "b", " ">>, <<"a">>, <<"a", " ">>}

PoolRows(players, positions) == [Player : players, Position : positions]

\* manager names: "b", "B", "b " and "a"
ManagerNames == {<<"b">>, <<"B">>, <<"b", " ">>, <<"a">>}

Budgets == {1, DefaultBudget}

Prices == {NumPrice(n) : n \in 1..MaxPrice} \cup {StrPrice}

LedgerRows(players, positions, prices, managers) ==
  [Player : players, Position : positions, Price : prices, DraftedBy : managers]

\* ledgers of picks of distinct players: the i-th pick is of player RowName(i)
Ledgers(positions, prices, managers, n) ==
  {[i \in DOMAIN s |-> [Player |-> RowName(i), Position |-> s[i].Position,
                         Price |-> s[i].Price, DraftedBy |-> s[i].DraftedBy]] :
     s \in SeqsUpTo([Position : positions, Price : prices, DraftedBy : managers], n)}

\* the positions of the nomination runs: pools and counts over both, target
\* builds over some of them
NominationPositions == {"QB", "RB"}

\* weights of the nomination runs: the defaults, and QB weighted 0.0
NominationWeights == {<<>>, [QB |-> 0]}

\* strategy names: the three strategies and two names that are none of them
Strategies == {"drain", "decoy", "target", "stealth", "Drain"}

\* manager names of a session: "b", "B " and "a"
SessionManagers == {<<"b">>, <<"B", " ">>, <<"a">>}

\* prices of a session: the lowest, the highest and a text that is no number
SessionPrices == {NumPrice(1), NumPrice(MaxPrice), StrPrice}

\* raw position strings: suffixed codes, a bare code, codes after a digit, a
\* lowercase letter or inside other characters, no letter, an empty cell
RawPositions ==
  {<<"W", "R", "1">>, <<"R", "B", "2">>, <<"W">>, <<"1", "W">>, <<"w", "R">>,
   <<"W", "1", "R">>, <<"-">>, <<>>}

\* raw player names: a name, an empty or missing cell
RawNames == {<<"a">>, <<>>}

\* the raw rows of a pool source
RawPools == SeqsUpTo([Player : RawNames, POS : RawPositions], MaxPool)

\* the picks appended to a ledger of the availability filter
AvailablePicks == LedgerRows(PlayerNames, {"RB"}, {NumPrice(1)}, {<<"a">>})

\* the picks appended to a ledger of the team view: the i-th pick is of
\* player RowName(i)
TeamPicks(i) == LedgerRows({RowName(i)}, {"RB", "WR"}, Prices, ManagerNames)

\* the position code of a script run, as a str: "RB"
CyclePosition == <<"R", "B">>

\* the prices of the Draft worksheet of a script run
CyclePrices == {NumPrice(1), StrPrice}

\* the rows a manager appends to the Draft worksheet: the i-th pick is of
\* player RowName(i)
DraftRecords(i) == LedgerRows({RowName(i)}, {CyclePosition}, CyclePrices, SessionManagers)

\* the Draft worksheets a script run starts on
DraftSheets == Ledgers({CyclePosition}, CyclePrices, SessionManagers, MaxLedger)

\* the PlayerPool worksheets: players RowName(1), RowName(2), ... with the
\* raw position "RB1"
PlayerSheets ==
  {[i \in 1..n |-> [Player |-> RowName(i), Position |-> CyclePosition \o <<"1">>]] :
     n \in 1..MaxPool}

\* st.session_state.target_build and position_weights of a script run
CycleTargetBuild == <<[k |-> CyclePosition, v |-> 1]>>

CyclePositionWeights == [p \in {CyclePosition} |-> 2]

NoResult == [op |-> "none"]

-----------------------------------------------------------------------------
(* The ledger view: a ledger snapshot and calls of get_my_team on it *)

Init ==
  /\ draft_sheet = <<>>
  /\ player_sheet = <<>>
  /\ draft_board \in Ledgers({"RB", "WR"}, Prices, ManagerNames, MaxLedger)
  /\ player_pool = <<>>
  /\ position_counts = <<>>
  /\ target_build = <<>>
  /\ position_weights = <<>>
  /\ priority_gaps = <<>>
  /\ result = NoResult

GetMyTeam ==
  \E m \in ManagerNames, b \in Budgets :
    /\ result' = [op |-> "get_my_team", manager_name |-> m, budget |-> b,
                  ret |-> get_my_team(draft_board, m, b)]
    /\ UNCHANGED <<draft_sheet, player_sheet, draft_board, player_pool, position_counts, target_build,
                   position_weights, priority_gaps>>

Next == GetMyTeam

Spec == Init /\ [][Next]_vars

-----------------------------------------------------------------------------
(* The availability filter: a pool and a ledger snapshot, the filter applied
   to the pool and applied again to its own output *)

InitAvail ==
  /\ draft_sheet = <<>>
  /\ player_sheet = <<>>
  /\ draft_board \in SeqsUpTo(LedgerRows(PlayerNames, {"RB"}, {NumPrice(1)},
                                          {<<"a">>, <<"b">>}), MaxLedger)
  /\ player_pool \in SeqsUpTo(PoolRows(PlayerNames, {"RB"}), MaxPool)
  /\ position_counts = <<>>
  /\ target_build = <<>>
  /\ position_weights = <<>>
  /\ priority_gaps = <<>>
  /\ result = NoResult

GetAvailablePlayers ==
  /\ result' = [op |-> "get_available_players", again |-> FALSE,
                pool |-> player_pool,
                ret |-> get_available_players(player_pool, draft_board)]
  /\ UNCHANGED <<draft_sheet, player_sheet, draft_board, player_pool, position_counts, target_build,
                 position_weights, priority_gaps>>

\* the filter applied to the pool it returned
GetAvailablePlayersAgain ==
  /\ result.op = "get_available_players"
  /\ result' = [op |-> "get_available_players", again |-> TRUE,
                pool |-> result.ret,
                ret |-> get_available_players(result.ret, draft_board)]
  /\ UNCHANGED <<draft_sheet, player_sheet, draft_board, player_pool, position_counts, target_build,
                 position_weights, priority_gaps>>

NextAvail == GetAvailablePlayers \/ GetAvailablePlayersAgain

SpecAvail == InitAvail /\ [][NextAvail]_vars

-----------------------------------------------------------------------------
(* The need assessor: position counts, a target build and weights, and calls
   of assess_positional_gaps and prioritize_positions on them *)

InitNeed ==
  /\ draft_sheet = <<>>
  /\ player_sheet = <<>>
  /\ draft_board = <<>>
  /\ player_pool = <<>>
  /\ position_counts \in PositionCounts
  /\ target_build \in TargetBuilds
  /\ position_weights \in PositionWeights
  /\ priority_gaps = <<>>
  /\ result = NoResult

AssessPositionalGaps ==
  /\ result' = [op |-> "assess_positional_gaps",
                ret |-> assess_positional_gaps(position_counts, target_build)]
  /\ UNCHANGED <<draft_sheet, player_sheet, draft_board, player_pool, position_counts, target_build,
                 position_weights, priority_gaps>>

PrioritizePositions ==
  /\ result' = [op |-> "prioritize_positions",
                ret |-> prioritize_positions(position_counts, target_build,
                                             position_weights)]
  /\ UNCHANGED <<draft_sheet, player_sheet, draft_board, player_pool, position_counts, target_build,
                 position_weights, priority_gaps>>

NextNeed == AssessPositionalGaps \/ PrioritizePositions

SpecNeed == InitNeed /\ [][NextNeed]_vars

-----------------------------------------------------------------------------
(* The recommendation engine: an available pool and a priority mapping, and
   calls of recommend_players on them *)

InitRec ==
  /\ draft_sheet = <<>>
  /\ player_sheet = <<>>
  /\ draft_board = <<>>
  /\ player_pool \in RankedPools(Positions, MaxAvailable)
  /\ position_counts = <<>>
  /\ target_build = <<>>
  /\ position_weights = <<>>
  /\ priority_gaps \in PriorityMappings
  /\ result = NoResult

RecommendPlayers ==
  \E b \in RemainingBudgets, n \in (0..MaxRecommendations) \cup {DefaultMaxRecommendations} :
    /\ result' = [op |-> "recommend_players", budget_remaining |-> b,
                  max_recommendations |-> n,
                  ret |-> recommend_players(player_pool, priority_gaps, b, n)]
    /\ UNCHANGED <<draft_sheet, player_sheet, draft_board, player_pool, position_counts, target_build,
                   position_weights, priority_gaps>>

NextRec == RecommendPlayers

SpecRec == InitRec /\ [][NextRec]_vars

-----------------------------------------------------------------------------
(* The availability filter on a growing ledger: picks are appended to the
   ledger, the filter is applied to the ledger before and after each pick *)

InitAvailGrowth ==
  /\ draft_sheet = <<>>
  /\ player_sheet = <<>>
  /\ draft_board = <<>>
  /\ player_pool \in SeqsUpTo(PoolRows(PlayerNames, {"RB"}), MaxPool)
  /\ position_counts = <<>>
  /\ target_build = <<>>
  /\ position_weights = <<>>
  /\ priority_gaps = <<>>
  /\ result = NoResult

AppendPickGetAvailablePlayers ==
  /\ Len(draft_board) < MaxLedger
  /\ \E p \in AvailablePicks :
       /\ draft_board' = AppendedLedger(draft_board, p)
       /\ result' = [op |-> "append_pick_get_available_players", pick |-> p,
                     before |-> get_available_players(player_pool, draft_board),
                     ret |-> get_available_players(player_pool, draft_board')]
  /\ UNCHANGED <<draft_sheet, player_sheet, player_pool, position_counts, target_build,
                 position_weights, priority_gaps>>

NextAvailGrowth == AppendPickGetAvailablePlayers

SpecAvailGrowth == InitAvailGrowth /\ [][NextAvailGrowth]_vars

-----------------------------------------------------------------------------
(* The team view on a growing ledger: picks are appended to the ledger,
   get_my_team is called for every manager name on the ledger before and
   after each pick *)

InitTeamGrowth ==
  /\ draft_sheet = <<>>
  /\ player_sheet = <<>>
  /\ draft_board = <<>>
  /\ player_pool = <<>>
  /\ position_counts = <<>>
  /\ target_build = <<>>
  /\ position_weights = <<>>
  /\ priority_gaps = <<>>
  /\ result = NoResult

AppendPickGetMyTeam ==
  /\ Len(draft_board) < MaxLedger
  /\ \E p \in TeamPicks(Len(draft_board) + 1), b \in Budgets :
       /\ draft_board' = AppendedLedger(draft_board, p)
       /\ result' = [op |-> "append_pick_get_my_team", pick |-> p, budget |-> b,
                     before |-> [m \in ManagerNames |-> get_my_team(draft_board, m, b)],
                     ret |-> [m \in ManagerNames |-> get_my_team(draft_board', m, b)]]
  /\ UNCHANGED <<draft_sheet, player_sheet, player_pool, position_counts, target_build,
                 position_weights, priority_gaps>>

NextTeamGrowth == AppendPickGetMyTeam

SpecTeamGrowth == InitTeamGrowth /\ [][NextTeamGrowth]_vars

-----------------------------------------------------------------------------
(* The nomination strategist: an available pool, the caller's position
   counts, a target build and the priorities prioritize_positions gives for
   them, and calls of suggest_nominations *)

InitNom ==
  /\ draft_sheet = <<>>
  /\ player_sheet = <<>>
  /\ draft_board = <<>>
  /\ player_pool \in RankedPools(NominationPositions, MaxAvailable)
  /\ position_counts \in DictsOn(NominationPositions, 1..MaxCount)
  /\ target_build \in OrderedDicts(NominationPositions, 0..MaxTarget)
  /\ position_weights \in NominationWeights
  /\ priority_gaps = prioritize_positions(position_counts, target_build, position_weights)
  /\ result = NoResult

SuggestNominations ==
  \E s \in Strategies, n \in {1, DefaultMaxSuggestions} :
    \E r \in suggest_nominations(player_pool, position_counts, target_build, priority_gaps, s, n) :
      /\ result' = [op |-> "suggest_nominations", strategy |-> s,
                    max_suggestions |-> n, ret |-> r]
      /\ UNCHANGED <<draft_sheet, player_sheet, draft_board, player_pool, position_counts, target_build,
                     position_weights, priority_gaps>>

NextNom == SuggestNominations

SpecNom == InitNom /\ [][NextNom]_vars

-----------------------------------------------------------------------------
(* The strategist called again: suggest_nominations invoked a second time
   with the arguments of the last call *)

SuggestNominationsAgain ==
  /\ result.op = "suggest_nominations"
  /\ \E r \in suggest_nominations(player_pool, position_counts, target_build, priority_gaps, result.strategy, result.max_suggestions) :
       result' = [op |-> "suggest_nominations_again", strategy |-> result.strategy,
                  max_suggestions |-> result.max_suggestions,
                  first |-> result.ret, ret |-> r]
  /\ UNCHANGED <<draft_sheet, player_sheet, draft_board, player_pool, position_counts, target_build,
                 position_weights, priority_gaps>>

NextNomAgain == SuggestNominations \/ SuggestNominationsAgain

SpecNomAgain == InitNom /\ [][NextNomAgain]_vars

-----------------------------------------------------------------------------
(* The strategist and the recommendation engine on the same pool and the
   same priorities *)

NextStrategist == SuggestNominations \/ RecommendPlayers

SpecStrategist == InitNom /\ [][NextStrategist]_vars

-----------------------------------------------------------------------------
(* A session on one ledger snapshot: get_my_team, summarize_opponents and
   sync_player_pool_with_draft called on the same frame, in any order;
   player_pool holds the records of the PlayerPool worksheet *)

InitSession ==
  /\ draft_sheet = <<>>
  /\ player_sheet = <<>>
  /\ draft_board \in Ledgers({"RB"}, SessionPrices, SessionManagers, MaxLedger)
  /\ player_pool \in RankedPools({"RB"}, MaxPool)
  /\ position_counts = <<>>
  /\ target_build = <<>>
  /\ position_weights = <<>>
  /\ priority_gaps = <<>>
  /\ result = NoResult

SummarizeOpponents ==
  \E m \in SessionManagers, b \in Budgets :
    \E r \in summarize_opponents(draft_board, m, b) :
      /\ draft_board' = CoercePrices(draft_board)
      /\ result' = [op |-> "summarize_opponents", my_name |-> m,
                    starting_budget |-> b, ret |-> r]
      /\ UNCHANGED <<draft_sheet, player_sheet, player_pool, position_counts, target_build,
                     position_weights, priority_gaps>>

SyncPlayerPoolWithDraft ==
  LET r == sync_player_pool_with_draft(player_pool, draft_board)
  IN  /\ draft_board' = r.draft_df
      /\ player_pool' = r.worksheet
      /\ result' = [op |-> "sync_player_pool_with_draft", ret |-> [raised |-> r.raised]]
      /\ UNCHANGED <<draft_sheet, player_sheet, position_counts, target_build, position_weights, priority_gaps>>

NextSession == GetMyTeam \/ SummarizeOpponents \/ SyncPlayerPoolWithDraft

SpecSession == InitSession /\ [][NextSession]_vars

-----------------------------------------------------------------------------
(* The pool normalizer: player_pool holds the raw rows of a pool source (a
   CSV file or a worksheet), loaded by the CSV loader or by the worksheet
   loader; a loader returns a new frame *)

InitPool ==
  /\ draft_sheet = <<>>
  /\ player_sheet = <<>>
  /\ draft_board = <<>>
  /\ player_pool \in RawPools
  /\ position_counts = <<>>
  /\ target_build = <<>>
  /\ position_weights = <<>>
  /\ priority_gaps = <<>>
  /\ result = NoResult

LoadPlayerPool ==
  /\ result' = [op |-> "load_player_pool", ret |-> load_player_pool(player_pool)]
  /\ UNCHANGED <<draft_sheet, player_sheet, draft_board, player_pool, position_counts, target_build,
                 position_weights, priority_gaps>>

LoadPlayerPoolFromGsheet ==
  /\ result' = [op |-> "load_player_pool_from_gsheet",
                ret |-> load_player_pool_from_gsheet(player_pool)]
  /\ UNCHANGED <<draft_sheet, player_sheet, draft_board, player_pool, position_counts, target_build,
                 position_weights, priority_gaps>>

NextPool == LoadPlayerPool \/ LoadPlayerPoolFromGsheet

SpecPool == InitPool /\ [][NextPool]_vars

-----------------------------------------------------------------------------
(* A script run of streamlit_app.py (a query cycle) while managers append
   picks to the Draft worksheet: the frames are loaded once, then the
   derivations are computed in script order; result holds the position in
   the script (pc), the ledger as it was fetched and the results so far; an
   error or an empty frame stops the run, and the script is run again *)

InitCycle ==
  /\ draft_sheet \in DraftSheets
  /\ player_sheet \in PlayerSheets
  /\ draft_board = <<>>
  /\ player_pool = <<>>
  /\ position_counts = <<>>
  /\ target_build = CycleTargetBuild
  /\ position_weights = CyclePositionWeights
  /\ priority_gaps = <<>>
  /\ result = [op |-> "cycle", pc |-> "load"]

\* a manager appends a pick to the Draft worksheet, at any time
AppendDraftRecord ==
  /\ Len(draft_sheet) < MaxLedger
  /\ \E p \in DraftRecords(Len(draft_sheet) + 1) : draft_sheet' = Append(draft_sheet, p)
  /\ UNCHANGED <<player_sheet, draft_board, player_pool, position_counts, target_build, position_weights, priority_gaps, result>>

SafeLoadData ==
  /\ result.pc = "load"
  /\ LET board == load_draft_board_from_gsheet(draft_sheet)
         pool == load_player_pool_from_gsheet(PlayerRecords(player_sheet))
     IN  /\ draft_board' = board
         /\ IF board = <<>> \/ pool.raised \/ pool.rows = <<>>
            THEN /\ player_pool' = player_pool
                 /\ result' = [op |-> "cycle", pc |-> "stopped", fetched |-> board]
            ELSE /\ player_pool' = pool.rows
                 /\ result' = [op |-> "cycle", pc |-> "loaded", fetched |-> board]
  /\ UNCHANGED <<draft_sheet, player_sheet, position_counts, target_build, position_weights, priority_gaps>>

\* the Sync Data button: the pool worksheet is synchronised with the loaded
\* ledger and the script is run again; a failed sync is reported and the run
\* goes on
CycleSyncPlayerPoolWithDraft ==
  /\ result.pc = "loaded"
  /\ LET r == sync_player_pool_with_draft(player_sheet, draft_board)
     IN  /\ draft_board' = r.draft_df
         /\ player_sheet' = r.worksheet
         /\ result' = IF r.raised THEN result ELSE [op |-> "cycle", pc |-> "load"]
  /\ UNCHANGED <<draft_sheet, player_pool, position_counts, target_build, position_weights, priority_gaps>>

\* the same step reading the Draft worksheet again instead of the loaded frame
CycleGetAvailablePlayersRefetched ==
  /\ result.pc = "loaded"
  /\ result' = [op |-> "cycle", pc |-> "my_team", fetched |-> result.fetched,
                available_players |-> get_available_players(player_pool, load_draft_board_from_gsheet(draft_sheet))]
  /\ UNCHANGED <<draft_sheet, player_sheet, draft_board, player_pool, position_counts, target_build, position_weights, priority_gaps>>

CycleGetAvailablePlayers ==
  /\ result.pc = "loaded"
  /\ result' = [op |-> "cycle", pc |-> "my_team", fetched |-> result.fetched,
                available_players |-> get_available_players(player_pool, draft_board)]
  /\ UNCHANGED <<draft_sheet, player_sheet, draft_board, player_pool, position_counts, target_build, position_weights, priority_gaps>>

CycleGetMyTeam ==
  /\ result.pc = "my_team"
  /\ LET t == get_my_team(draft_board, MyName, DefaultBudget)
     IN  IF t.raised
         THEN /\ result' = [op |-> "cycle", pc |-> "stopped", fetched |-> result.fetched]
              /\ position_counts' = position_counts
         ELSE /\ result' = [op |-> "cycle", pc |-> "priorities", fetched |-> result.fetched,
                            available_players |-> result.available_players, my_team |-> t]
              /\ position_counts' = t.position_counts
  /\ UNCHANGED <<draft_sheet, player_sheet, draft_board, player_pool, target_build, position_weights, priority_gaps>>

CyclePrioritizePositions ==
  /\ result.pc = "priorities"
  /\ priority_gaps' = prioritize_positions(result.my_team.position_counts, target_build, position_weights)
  /\ result' = [result EXCEPT !.pc = "opponents"]
  /\ UNCHANGED <<draft_sheet, player_sheet, draft_board, player_pool, position_counts, target_build, position_weights>>

CycleSummarizeOpponents ==
  /\ result.pc = "opponents"
  /\ draft_board' = CoercePrices(draft_board)
  /\ \E r \in summarize_opponents(draft_board, MyName, DefaultBudget) :
       result' = IF r.raised
                 THEN [op |-> "cycle", pc |-> "stopped", fetched |-> result.fetched]
                 ELSE [op |-> "cycle", pc |-> "nominations", fetched |-> result.fetched,
                       available_players |-> result.available_players,
                       my_team |-> result.my_team, opponent_summary |-> r.rows]
  /\ UNCHANGED <<draft_sheet, player_sheet, player_pool, position_counts, target_build, position_weights, priority_gaps>>

CycleSuggestNominations ==
  /\ result.pc = "nominations"
  /\ LET Suggest(strategy) ==
           suggest_nominations(result.available_players, result.my_team.position_counts, target_build, priority_gaps, strategy, DefaultMaxSuggestions)
     IN  \E drainers \in Suggest("drain"), decoys \in Suggest("decoy"), targets \in Suggest("target") :
           result' = [op |-> "cycle", pc |-> "done", fetched |-> result.fetched,
                      available_players |-> result.available_players,
                      my_team |-> result.my_team,
                      opponent_summary |-> result.opponent_summary,
                      drainers |-> drainers, decoys |-> decoys, targets |-> targets]
  /\ UNCHANGED <<draft_sheet, player_sheet, draft_board, player_pool, position_counts, target_build, position_weights, priority_gaps>>

\* the script is run again: a new query cycle
Rerun ==
  /\ result.pc \in {"done", "stopped"}
  /\ result' = [op |-> "cycle", pc |-> "load"]
  /\ UNCHANGED <<draft_sheet, player_sheet, draft_board, player_pool, position_counts, target_build, position_weights, priority_gaps>>

NextCycle ==
  \/ AppendDraftRecord
  \/ SafeLoadData
  \/ CycleSyncPlayerPoolWithDraft
  \/ CycleGetAvailablePlayers
  \/ CycleGetMyTeam
  \/ CyclePrioritizePositions
  \/ CycleSummarizeOpponents
  \/ CycleSuggestNominations
  \/ Rerun

SpecCycle == InitCycle /\ [][NextCycle]_vars

-----------------------------------------------------------------------------
(* Properties of the ledger view *)

\* two names are the same identity: equal up to letter case and surrounding
\* whitespace
SameIdentity(a, b) == Lower(Strip(a)) = Lower(Strip(b))

IsTeamCall == result.op = "get_my_team"

RECURSIVE SumOver(_, _)
SumOver(f, S) ==
  IF S = {} THEN 0
  ELSE LET x == CHOOSE y \in S : TRUE IN f[x] + SumOver(f, S \ {x})

\* C1: for a manager name that matches no ledger entry, get_my_team does not
\* raise and returns an empty roster, spent 0, empty position counts and
\* remaining_budget equal to the starting budget.
C1_AbsentManagerEmptyBundle ==
  (IsTeamCall /\ \A i \in DOMAIN draft_board :
                   ~SameIdentity(draft_board[i].DraftedBy, result.manager_name))
  => /\ ~result.ret.raised
     /\ result.ret.roster = <<>>
     /\ result.ret.spent = 0
     /\ DOMAIN result.ret.position_counts = {}
     /\ result.ret.remaining_budget = result.budget

\* C1 witness: a ledger of picks of other managers, one with a text price,
\* queried for a manager who has none
C1_Witness ==
  /\ IsTeamCall
  /\ Len(draft_board) = 2
  /\ \A i \in DOMAIN draft_board :
        ~SameIdentity(draft_board[i].DraftedBy, result.manager_name)
  /\ \E i \in DOMAIN draft_board : draft_board[i].Price.kind = "str"
  /\ ~result.ret.raised
  /\ result.ret.remaining_budget = DefaultBudget

\* C2: every ledger entry whose 'Drafted By' equals the requested manager
\* name up to letter case and leading/trailing whitespace is in the roster
\* get_my_team returns.
C2_TrimmedMatchInRoster ==
  (IsTeamCall /\ ~result.ret.raised)
  => \A i \in DOMAIN draft_board :
       SameIdentity(draft_board[i].DraftedBy, result.manager_name)
       => draft_board[i] \in Range(result.ret.roster)

\* C3: the bundle get_my_team returns is consistent: spent is the sum of the
\* prices of the roster rows, remaining_budget is budget - spent without a
\* floor at zero, and position_counts has exactly the positions of the
\* roster, each with its number of roster rows (summing to the roster size).
C3_BundleConsistent ==
  (IsTeamCall /\ ~result.ret.raised)
  => LET r == result.ret
         present == {r.roster[i].Position : i \in DOMAIN r.roster}
     IN  /\ r.spent = SumPrices(r.roster)
         /\ r.remaining_budget = result.budget - r.spent
         /\ DOMAIN r.position_counts = present
         /\ \A p \in present :
               r.position_counts[p] =
                 Cardinality({i \in DOMAIN r.roster : r.roster[i].Position = p})
         /\ SumOver(r.position_counts, present) = Len(r.roster)

\* C3 witness: a roster that is a proper part of the ledger and overspends
C3_Witness ==
  /\ IsTeamCall
  /\ ~result.ret.raised
  /\ Len(result.ret.roster) >= 1
  /\ Len(result.ret.roster) < Len(draft_board)
  /\ result.ret.spent > result.budget
  /\ result.ret.remaining_budget < 0

-----------------------------------------------------------------------------
(* Properties of the availability filter *)

IsAvailCall == result.op = "get_available_players"

\* no ledger entry, of whichever manager, has the row's name up to letter
\* case and surrounding whitespace
NotInLedger(r) ==
  \A i \in DOMAIN draft_board : ~SameIdentity(r.Player, draft_board[i].Player)

\* C4: get_available_players returns exactly the pool rows, in pool order,
\* whose trimmed and case-folded name is the trimmed and case-folded name of
\* no ledger entry, whichever manager drafted it; "B" in the pool is
\* excluded when the ledger holds " b ".
C4_AvailableIsPoolMinusLedger ==
  IsAvailCall
  => /\ result.ret = SelectSeq(result.pool, NotInLedger)
     /\ (\E i \in DOMAIN draft_board : draft_board[i].Player = <<" ", "b", " ">>)
        => \A j \in DOMAIN result.ret : result.ret[j].Player # <<"B">>

\* C4 witness: the pool holds "B" and "a", the ledger holds " b " and picks
\* of two managers, and the filter has returned a non-empty pool
C4_Witness ==
  /\ IsAvailCall
  /\ ~result.again
  /\ \E i \in DOMAIN result.pool : result.pool[i].Player = <<"B">>
  /\ \E i \in DOMAIN draft_board : draft_board[i].Player = <<" ", "b", " ">>
  /\ \E i, j \in DOMAIN draft_board :
        draft_board[i].DraftedBy # draft_board[j].DraftedBy
  /\ result.ret # <<>>
  /\ Len(result.ret) < Len(result.pool)

\* C5: the availability filter is idempotent: applied to its own output
\* against the same ledger it returns that output unchanged.
C5_FilterIdempotent ==
  (IsAvailCall /\ result.again) => result.ret = result.pool

\* C5 witness: the second application, on the output of a first one that
\* removed a row and kept a row
C5_Witness ==
  /\ IsAvailCall
  /\ result.again
  /\ result.pool # <<>>
  /\ Len(result.pool) < Len(player_pool)

-----------------------------------------------------------------------------
(* Properties of the need assessor *)

IsGapsCall == result.op = "assess_positional_gaps"

IsPrioritizeCall == result.op = "prioritize_positions"

\* the drafted count of a position, 0 when it is absent from the counts
Drafted(pos) == IF pos \in DOMAIN position_counts THEN position_counts[pos] ELSE 0

\* target minus drafted, for a position of the target build
Gap(pos) == ItemValue(target_build, pos) - Drafted(pos)

\* the weight of a position, 0.5 (1 half) when it is absent from the weights
Weight(pos) == IF pos \in DOMAIN position_weights THEN position_weights[pos] ELSE 1

\* a dict has each of its keys once
DistinctKeys(d) == \A i, j \in DOMAIN d : d[i].k = d[j].k => i = j

\* C6: assess_positional_gaps returns a mapping whose key set is exactly the
\* key set of the target build, each value the target minus the drafted
\* count (0 when absent from the counts); positions only in the counts are
\* not reported and the gap of an over-filled position is negative.
C6_GapsOverTargetKeys ==
  IsGapsCall
  => /\ Keys(result.ret) = Keys(target_build)
     /\ DistinctKeys(result.ret)
     /\ \A pos \in Keys(target_build) : ItemValue(result.ret, pos) = Gap(pos)
     /\ \A pos \in DOMAIN position_counts :
           pos \notin Keys(target_build) => pos \notin Keys(result.ret)
     /\ \A pos \in Keys(target_build) :
           Drafted(pos) > ItemValue(target_build, pos) => ItemValue(result.ret, pos) < 0

\* C6 witness: an over-filled position, a position missing from the counts
\* and a counted position outside the target build
C6_Witness ==
  /\ IsGapsCall
  /\ \E pos \in Keys(target_build) : ItemValue(result.ret, pos) < 0
  /\ \E pos \in Keys(target_build) :
        pos \notin DOMAIN position_counts /\ ItemValue(result.ret, pos) > 0
  /\ \E pos \in DOMAIN position_counts : pos \notin Keys(target_build)

\* C7: prioritize_positions returns a mapping whose key set is exactly the
\* key set of the target build, each score max(0, target - drafted) times
\* the weight, 0.5 for a position absent from the weights; positions with
\* zero or negative gap are present with score 0.
C7_ScoreIsNeedTimesWeight ==
  IsPrioritizeCall
  => /\ Keys(result.ret) = Keys(target_build)
     /\ DistinctKeys(result.ret)
     /\ \A pos \in Keys(target_build) :
           ItemValue(result.ret, pos) =
             (IF Gap(pos) > 0 THEN Gap(pos) ELSE 0) * Weight(pos)
     /\ \A pos \in Keys(target_build) :
           Gap(pos) <= 0 => pos \in Keys(result.ret) /\ ItemValue(result.ret, pos) = 0

\* C7 witness: a needed position scored with the default weight, a needed
\* position scored with a given weight and an over-filled position
C7_Witness ==
  /\ IsPrioritizeCall
  /\ \E pos \in Keys(target_build) :
        /\ pos \notin DOMAIN position_weights
        /\ Gap(pos) = 2
        /\ ItemValue(result.ret, pos) = 2
  /\ \E pos \in Keys(target_build) :
        /\ pos \in DOMAIN position_weights
        /\ Gap(pos) = 2
        /\ ItemValue(result.ret, pos) = 4
  /\ \E pos \in Keys(target_build) : Gap(pos) < 0 /\ ItemValue(result.ret, pos) = 0

\* C8: for non-negative weights no score of prioritize_positions is
\* negative, the scores read in the mapping's iteration order are
\* non-increasing, and the score is 0 wherever the gap is <= 0.
C8_ScoresDescendingNonNegative ==
  (IsPrioritizeCall /\ \A pos \in DOMAIN position_weights : position_weights[pos] >= 0)
  => /\ \A i \in DOMAIN result.ret : result.ret[i].v >= 0
     /\ \A i, j \in DOMAIN result.ret : i < j => result.ret[i].v >= result.ret[j].v
     /\ \A i \in DOMAIN result.ret : Gap(result.ret[i].k) <= 0 => result.ret[i].v = 0

\* C8 witness: three scores, not all equal, that the sort had to reorder
C8_Witness ==
  /\ IsPrioritizeCall
  /\ Len(result.ret) = 3
  /\ result.ret[1].v > result.ret[3].v
  /\ result.ret[1].k # target_build[1].k
  /\ \E i \in DOMAIN result.ret : Gap(result.ret[i].k) < 0

\* C9: two positions of equal score appear in the result of
\* prioritize_positions in the order of their keys in the target build, the
\* zero-score positions included.
C9_TiesKeepTargetOrder ==
  IsPrioritizeCall
  => \A i, j \in DOMAIN result.ret :
       (i < j /\ result.ret[i].v = result.ret[j].v)
       => KeyIndex(target_build, result.ret[i].k) < KeyIndex(target_build, result.ret[j].k)

\* C9 witness: two tied positive scores that the sort moved in front of the
\* first position of the target build
C9_Witness ==
  /\ IsPrioritizeCall
  /\ Len(result.ret) = 3
  /\ result.ret[1].v = result.ret[2].v
  /\ result.ret[1].v > 0
  /\ result.ret[3].k = target_build[1].k

-----------------------------------------------------------------------------
(* Properties of the recommendation engine *)

IsRecommendCall == result.op = "recommend_players"

\* the position of the row has a strictly positive priority score
PositiveScore(r) ==
  \E i \in DOMAIN priority_gaps :
    priority_gaps[i].k = r.Position /\ priority_gaps[i].v > 0

\* C10: recommend_players returns the first n rows, in pool order, of the
\* pool rows whose position has a strictly positive score (fewer when fewer
\* exist, none when no score is positive): at most n rows, whatever
\* budget_remaining is.
C10_FirstNOfPositivePositions ==
  IsRecommendCall
  => LET wanted == SelectSeq(player_pool, PositiveScore)
         n == result.max_recommendations
     IN  /\ Len(result.ret) = (IF Len(wanted) < n THEN Len(wanted) ELSE n)
         /\ \A i \in DOMAIN result.ret : result.ret[i] = wanted[i]
         /\ Len(result.ret) <= n
         /\ (\A i \in DOMAIN priority_gaps : priority_gaps[i].v <= 0)
            => result.ret = <<>>

\* C10 witness: with the budget overspent, a pool with a row at a zero-score
\* position in front of two rows at positive-score positions, cut to one row
C10_Witness ==
  /\ IsRecommendCall
  /\ result.budget_remaining < 0
  /\ result.max_recommendations = 1
  /\ Len(player_pool) = 3
  /\ ~PositiveScore(player_pool[1])
  /\ PositiveScore(player_pool[2])
  /\ PositiveScore(player_pool[3])
  /\ result.ret = <<player_pool[2]>>


-----------------------------------------------------------------------------
(* Properties of the nomination strategist *)

IsNominationCall(strategy) ==
  result.op = "suggest_nominations" /\ result.strategy = strategy

\* the positions of the target build filled to target: gap <= 0
FilledPositions == {pos \in Keys(target_build) : Gap(pos) <= 0}

AtFilledPosition(r) == r.Position \in FilledPositions

\* the first n rows of a sequence of rows
FirstRows(rows, n) == [i \in 1..(IF Len(rows) < n THEN Len(rows) ELSE n) |-> rows[i]]

\* C11, as stated: whenever the set of filled positions is non-empty, every
\* player returned by the drain strategy has a position in that set.
C11_DrainOnlyFilledPositions ==
  (IsNominationCall("drain") /\ FilledPositions # {})
  => \A i \in DOMAIN result.ret : AtFilledPosition(result.ret[i])

\* C11, amended: whenever at least one available player is at a filled
\* position, the drain strategy returns the first max_suggestions players at
\* filled positions, in pool order: every returned player has a position in
\* the filled set.
C11_DrainOnlyFilledWhenAvailable ==
  (IsNominationCall("drain") /\ \E i \in DOMAIN player_pool : AtFilledPosition(player_pool[i]))
  => /\ result.ret = FirstRows(SelectSeq(player_pool, AtFilledPosition), result.max_suggestions)
     /\ \A i \in DOMAIN result.ret : AtFilledPosition(result.ret[i])

\* C11 witness: a position filled exactly to target (gap 0) and one not
\* filled, a pool whose first row is at the unfilled position; the drain
\* strategy returns the later rows, at the filled position
C11_Witness ==
  /\ IsNominationCall("drain")
  /\ \E pos \in FilledPositions : Gap(pos) = 0
  /\ Len(player_pool) = 3
  /\ ~AtFilledPosition(player_pool[1])
  /\ result.max_suggestions = DefaultMaxSuggestions
  /\ result.ret = <<player_pool[2], player_pool[3]>>

\* the score of the row's position is below 0.5
LowPriority(r) ==
  \E i \in DOMAIN priority_gaps :
    priority_gaps[i].k = r.Position /\ priority_gaps[i].v < DecoyThreshold

\* the candidate slice: the low-priority players within the first TopSlice
\* entries of the available pool, these entries when there is none
CandidateSlice ==
  LET top == FirstRows(player_pool, TopSlice)
      low == SelectSeq(top, LowPriority)
  IN  IF low = <<>> THEN top ELSE low

\* C12: the decoy strategy returns distinct players, at most
\* min(max_suggestions, size of the candidate slice) of them, each drawn from
\* the candidate slice: the low-priority players within the first entries of
\* the available pool, or these first entries when none is low-priority.
C12_DecoyFromCandidateSlice ==
  IsNominationCall("decoy")
  => /\ \A i, j \in DOMAIN result.ret : result.ret[i] = result.ret[j] => i = j
     /\ Len(result.ret) <= result.max_suggestions
     /\ Len(result.ret) <= Len(CandidateSlice)
     /\ \A i \in DOMAIN result.ret : result.ret[i] \in Range(CandidateSlice)

\* C13, as stated: when at least one position has a score greater than 0 the
\* target strategy returns the first max_suggestions players at positions
\* with a positive score, in pool order; when no position has one, the first
\* max_suggestions rows of the full pool.
C13_TargetByPositiveScore ==
  IsNominationCall("target")
  => IF \E i \in DOMAIN priority_gaps : priority_gaps[i].v > 0
     THEN /\ \A i \in DOMAIN result.ret : PositiveScore(result.ret[i])
          /\ result.ret = FirstRows(SelectSeq(player_pool, PositiveScore), result.max_suggestions)
     ELSE result.ret = FirstRows(player_pool, result.max_suggestions)

\* C13, amended: when at least one available player is at a position with a
\* score greater than 0 the target strategy returns the first
\* max_suggestions such players in pool order; when no available player is
\* (no position has a positive score, or none of the available players is at
\* one), the first max_suggestions rows of the full pool.
C13_TargetByAvailablePositiveScore ==
  IsNominationCall("target")
  => IF \E i \in DOMAIN player_pool : PositiveScore(player_pool[i])
     THEN /\ \A i \in DOMAIN result.ret : PositiveScore(result.ret[i])
          /\ result.ret = FirstRows(SelectSeq(player_pool, PositiveScore), result.max_suggestions)
     ELSE result.ret = FirstRows(player_pool, result.max_suggestions)

\* C13 witness: a position of score 0 and one of positive score, a pool whose
\* first row is at the position of score 0; the target strategy with one
\* suggestion returns the second row
C13_Witness ==
  /\ IsNominationCall("target")
  /\ \E i \in DOMAIN priority_gaps : priority_gaps[i].v = 0
  /\ Len(player_pool) = 3
  /\ ~PositiveScore(player_pool[1])
  /\ PositiveScore(player_pool[2])
  /\ result.max_suggestions = 1
  /\ result.ret = <<player_pool[2]>>

\* C14: for every strategy name other than "drain", "decoy" and "target",
\* suggest_nominations returns an empty result, whatever the pool, the
\* counts, the target build and the priorities are.
C14_UnknownStrategyEmpty ==
  (result.op = "suggest_nominations" /\ result.strategy \notin {"drain", "decoy", "target"})
  => result.ret = <<>>

\* C14 witness: "Drain" is not "drain": with a pool of three players, a
\* filled position and a position of positive score, the result is empty
C14_Witness ==
  /\ IsNominationCall("Drain")
  /\ Len(player_pool) = 3
  /\ FilledPositions # {}
  /\ \E i \in DOMAIN player_pool : PositiveScore(player_pool[i])
  /\ result.ret = <<>>

-----------------------------------------------------------------------------
(* Properties of a session on one ledger snapshot *)

IsSummarizeCall == result.op = "summarize_opponents"

\* the ledger rows of the caller of summarize_opponents, and of the others
CallerRows == {i \in DOMAIN draft_board : SameIdentity(draft_board[i].DraftedBy, result.my_name)}

OpponentRows == DOMAIN draft_board \ CallerRows

\* the sum of the prices that are numbers
RECURSIVE NumericTotal(_)
NumericTotal(rows) ==
  IF rows = <<>> THEN 0
  ELSE (IF Head(rows).Price.kind = "num" THEN Head(rows).Price.v ELSE 0)
       + NumericTotal(Tail(rows))

\* C15: summarize_opponents leaves out the caller, matched up to letter case,
\* and no other manager, has one row per other manager, is sorted by
\* remaining budget descending, and its "Players Drafted" add up to the
\* number of ledger rows minus the number of the caller's picks.
C15_OpponentSummaryShape ==
  IsSummarizeCall
  => /\ ~result.ret.raised
     /\ LET rows == result.ret.rows
        IN  /\ {rows[i].Manager : i \in DOMAIN rows}
                 = {draft_board[i].DraftedBy : i \in OpponentRows}
            /\ \A i, j \in DOMAIN rows : rows[i].Manager = rows[j].Manager => i = j
            /\ \A i, j \in DOMAIN rows : i < j => rows[i].Remaining >= rows[j].Remaining
            /\ SumOver([i \in DOMAIN rows |-> rows[i].PlayersDrafted], DOMAIN rows)
                 = Len(draft_board) - Cardinality(CallerRows)

\* C16: in get_my_team and in summarize_opponents alike an entry whose price
\* is no number contributes 0: neither raises on it, spent is the sum of the
\* numeric prices of the entries counted and remaining is the starting
\* budget minus that sum.
C16_OnePricePolicy ==
  /\ IsTeamCall
     => /\ ~result.ret.raised
        /\ result.ret.spent = NumericTotal(result.ret.roster)
        /\ result.ret.remaining_budget = result.budget - result.ret.spent
  /\ (IsSummarizeCall /\ ~result.ret.raised)
     => \A i \in DOMAIN result.ret.rows :
          LET row == result.ret.rows[i]
              InGroup(r) == r.DraftedBy = row.Manager
          IN  /\ row.Spent = NumericTotal(SelectSeq(draft_board, InGroup))
              /\ row.Remaining = result.starting_budget - row.Spent

\* C17, for the derivations on the ledger: with an empty ledger get_my_team
\* gives an empty roster, zero spend and the full budget, and with a ledger
\* of no opponent rows summarize_opponents gives an empty table; neither
\* raises.
C17_EmptyLedgerNeutralResults ==
  /\ (IsTeamCall /\ draft_board = <<>>)
     => /\ ~result.ret.raised
        /\ result.ret.roster = <<>>
        /\ result.ret.spent = 0
        /\ result.ret.remaining_budget = result.budget
  /\ (IsSummarizeCall /\ OpponentRows = {})
     => /\ ~result.ret.raised
        /\ result.ret.rows = <<>>

\* C18: no operation of a session changes the ledger it is given: the ledger
\* has the same rows, columns and cell values after every call.
C18_LedgerUnchanged == [][draft_board' = draft_board]_vars

-----------------------------------------------------------------------------
(* Properties of the pool normalizer *)

IsLoadCall == result.op \in {"load_player_pool", "load_player_pool_from_gsheet"}

HasName(r) == r.Player # <<>>

\* the raw rows the loaded rows come from, in order: the CSV loader drops the
\* rows without a name
LoadedFrom ==
  IF result.op = "load_player_pool" THEN SelectSeq(player_pool, HasName) ELSE player_pool

\* the maximal run of uppercase letters that starts at index i of s
UpperRunAt(s, i) ==
  LET end == CHOOSE j \in i..Len(s) :
               /\ \A k \in i..j : s[k] \in UpperLetters
               /\ j = Len(s) \/ s[j + 1] \notin UpperLetters
  IN  SubSeq(s, i, end)

\* the leading maximal run of uppercase letters, <<>> (no position) when the
\* string does not start with one
LeadingUpperRun(s) ==
  IF s # <<>> /\ s[1] \in UpperLetters THEN UpperRunAt(s, 1) ELSE <<>>

\* the first maximal run of uppercase letters anywhere in the string, <<>>
\* (no position) when the string has no uppercase letter
FirstUpperRun(s) ==
  LET uppers == {i \in DOMAIN s : s[i] \in UpperLetters}
  IN  IF uppers = {} THEN <<>>
      ELSE UpperRunAt(s, CHOOSE i \in uppers : \A j \in uppers : i <= j)

\* C19, as stated: the position of each loaded player is the leading maximal
\* run of uppercase letters of its raw position string; letters after a
\* prefix that is no uppercase letter are not taken as the position.
C19_PositionIsLeadingRun ==
  (IsLoadCall /\ ~result.ret.raised)
  => /\ Len(result.ret.rows) = Len(LoadedFrom)
     /\ \A i \in DOMAIN result.ret.rows :
          result.ret.rows[i].Position = LeadingUpperRun(LoadedFrom[i].POS)

\* C19, amended: the position of each loaded player is the first maximal
\* run of uppercase letters found anywhere in its raw position string
\* ("WR1" gives "WR", and so do "1W" and "wR" give "W" and "R"); a string
\* without an uppercase letter gives no position.
C19_PositionIsFirstRun ==
  (IsLoadCall /\ ~result.ret.raised)
  => /\ Len(result.ret.rows) = Len(LoadedFrom)
     /\ \A i \in DOMAIN result.ret.rows :
          result.ret.rows[i].Position = FirstUpperRun(LoadedFrom[i].POS)

\* C19 witness: the raw positions "WR1" and "1W" loaded as "WR" and "W"
C19_Witness ==
  /\ IsLoadCall
  /\ ~result.ret.raised
  /\ Len(player_pool) = 2
  /\ player_pool[1] = [Player |-> <<"a">>, POS |-> <<"W", "R", "1">>]
  /\ player_pool[2] = [Player |-> <<"a">>, POS |-> <<"1", "W">>]
  /\ result.ret.rows[1].Position = <<"W", "R">>
  /\ result.ret.rows[2].Position = <<"W">>

\* a raw position string holds a letter: the characters [a-z] and [A-Z]
LowerLetters ==
  {"a", "b", "c", "d", "e", "f", "g", "h", "i", "j", "k", "l", "m",
   "n", "o", "p", "q", "r", "s", "t", "u", "v", "w", "x", "y", "z"}

HasLetter(s) == \E i \in DOMAIN s : s[i] \in UpperLetters \cup LowerLetters

\* C20: the loaded pool holds no record without a position and no record
\* with an empty or missing name, and keeps, in order, every raw row that has
\* a name and a letter in its raw position.
C20_NoUndeterminedRecords ==
  (IsLoadCall /\ ~result.ret.raised)
  => LET Kept(r) == HasName(r) /\ HasLetter(r.POS)
         kept == SelectSeq(player_pool, Kept)
     IN  /\ \A i \in DOMAIN result.ret.rows :
              /\ result.ret.rows[i].Position # <<>>
              /\ result.ret.rows[i].Player # <<>>
         /\ Len(result.ret.rows) = Len(kept)
         /\ \A i \in DOMAIN kept : result.ret.rows[i].Player = kept[i].Player

\* C23, as stated: the drain strategy returns the first max_suggestions rows
\* of the entire available pool when no position of the target build is
\* filled to target, and only then: with a filled position it returns the
\* first max_suggestions players at filled positions.
C23_DrainFallbackIffNoneFilled ==
  IsNominationCall("drain")
  => result.ret = (IF FilledPositions = {}
                   THEN FirstRows(player_pool, result.max_suggestions)
                   ELSE FirstRows(SelectSeq(player_pool, AtFilledPosition), result.max_suggestions))

\* C23, amended: the drain strategy returns the first max_suggestions rows of
\* the entire available pool when no available player is at a position
\* filled to target (no position is filled, or none of the available players
\* is at a filled one), and only then: otherwise it returns the first
\* max_suggestions players at filled positions.
C23_DrainFallbackIffNoneAvailable ==
  IsNominationCall("drain")
  => result.ret = (IF \A i \in DOMAIN player_pool : ~AtFilledPosition(player_pool[i])
                   THEN FirstRows(player_pool, result.max_suggestions)
                   ELSE FirstRows(SelectSeq(player_pool, AtFilledPosition), result.max_suggestions))

\* C23 witness: a target build none of whose positions is filled and a pool
\* of three players; the drain strategy with one suggestion returns the
\* first row of the pool
C23_Witness ==
  /\ IsNominationCall("drain")
  /\ target_build # <<>>
  /\ FilledPositions = {}
  /\ Len(player_pool) = 3
  /\ result.max_suggestions = 1
  /\ result.ret = <<player_pool[1]>>

-----------------------------------------------------------------------------
(* Properties of the strategist called again *)

\* C21, for suggest_nominations: two invocations on equal arguments return
\* equal results, the same rows in the same order, for every strategy; the
\* arguments are all the inputs of a call, the function takes no random
\* source.
C21_EqualInputsEqualResults ==
  result.op = "suggest_nominations_again" => result.ret = result.first

\* the positions with a score greater than 0
PositivePositions == {priority_gaps[i].k : i \in {j \in DOMAIN priority_gaps : priority_gaps[j].v > 0}}

\* C27: with the priorities prioritize_positions gives for the same counts
\* and target build, the positions filled to target and the positions of
\* positive score are disjoint, whatever the weights: a drain nomination
\* made without the fallback is at no position of positive score, and a
\* target nomination made without the fallback, or a recommendation, is at
\* no filled position.
C27_DrainAndTargetDisjoint ==
  /\ FilledPositions \cap PositivePositions = {}
  /\ (IsNominationCall("drain") /\ \E i \in DOMAIN player_pool : AtFilledPosition(player_pool[i]))
     => \A i \in DOMAIN result.ret : ~PositiveScore(result.ret[i])
  /\ (IsNominationCall("target") /\ \E i \in DOMAIN player_pool : PositiveScore(player_pool[i]))
     => \A i \in DOMAIN result.ret : ~AtFilledPosition(result.ret[i])
  /\ IsRecommendCall
     => \A i \in DOMAIN result.ret : ~AtFilledPosition(result.ret[i])

\* C27 witness: a filled position and a position of positive score, a pool
\* with players at both; the drain strategy returns the players at the
\* filled position only
C27_Witness ==
  /\ IsNominationCall("drain")
  /\ result.max_suggestions = DefaultMaxSuggestions
  /\ FilledPositions # {}
  /\ PositivePositions # {}
  /\ Len(player_pool) = 3
  /\ PositiveScore(player_pool[1])
  /\ AtFilledPosition(player_pool[2])
  /\ AtFilledPosition(player_pool[3])
  /\ result.ret = <<player_pool[2], player_pool[3]>>

-----------------------------------------------------------------------------
(* Properties of the availability filter on a growing ledger *)

IsAppendAvailCall == result.op = "append_pick_get_available_players"

\* a is b with some rows left out, the others in the same relative order
IsSubsequence(a, b) ==
  \E f \in [DOMAIN a -> DOMAIN b] :
    /\ \A i, j \in DOMAIN a : i < j => f[i] < f[j]
    /\ \A i \in DOMAIN a : b[f[i]] = a[i]

\* C25: the available set after a pick is appended is a part of the
\* available set before it, in the same relative order, without the player
\* of the pick (up to letter case and surrounding whitespace), and without
\* any player of an earlier pick: a player once unavailable stays so.
C25_AvailableOnlyShrinks ==
  IsAppendAvailCall
  => /\ IsSubsequence(result.ret, result.before)
     /\ \A i \in DOMAIN result.ret :
          /\ ~SameIdentity(result.ret[i].Player, result.pick.Player)
          /\ \A j \in DOMAIN draft_board :
               ~SameIdentity(result.ret[i].Player, draft_board[j].Player)

\* C25 witness: the second pick, " b ", takes "B" out of the pool; "a", taken
\* by the first pick, stays out, and nothing is left
C25_Witness ==
  /\ IsAppendAvailCall
  /\ Len(draft_board) = 2
  /\ draft_board[1].Player = <<"a">>
  /\ result.pick.Player = <<" ", "b", " ">>
  /\ Len(player_pool) = 2
  /\ player_pool[1].Player = <<"a", " ">>
  /\ player_pool[2].Player = <<"B">>
  /\ result.before = <<player_pool[2]>>
  /\ result.ret = <<>>

-----------------------------------------------------------------------------
(* Properties of the team view on a growing ledger *)

IsAppendTeamCall == result.op = "append_pick_get_my_team"

\* the count of a position in position_counts, 0 when it has no key
CountOf(counts, pos) == IF pos \in DOMAIN counts THEN counts[pos] ELSE 0

\* C26: after a pick of manager M with a numeric price c and position q is
\* appended, get_my_team for M has spent increased by c, remaining budget
\* decreased by c and the count of q increased by 1, the other counts
\* unchanged; get_my_team for every name that is not M (up to letter case
\* and surrounding whitespace) returns what it returned before.
C26_AppendChangesOnlyTheDrafter ==
  (IsAppendTeamCall /\ result.pick.Price.kind = "num")
  => LET M == result.pick.DraftedBy
         old == result.before[M]
         new == result.ret[M]
     IN  /\ ~old.raised /\ ~new.raised
         /\ new.spent = old.spent + result.pick.Price.v
         /\ new.remaining_budget = old.remaining_budget - result.pick.Price.v
         /\ \A pos \in {"RB", "WR"} :
              CountOf(new.position_counts, pos)
                = CountOf(old.position_counts, pos)
                  + (IF pos = result.pick.Position THEN 1 ELSE 0)
         /\ \A m \in ManagerNames :
              ~SameIdentity(m, M) => result.ret[m] = result.before[m]

-----------------------------------------------------------------------------
(* Properties of a script run *)

IsCycle == result.op = "cycle"

HasResult(name) == name \in DOMAIN result

\* the results of the run computed on the ledger as it was fetched
SnapshotAvailablePlayers == get_available_players(player_pool, result.fetched)

SnapshotMyTeam == get_my_team(result.fetched, MyName, DefaultBudget)

SnapshotPriorities ==
  prioritize_positions(SnapshotMyTeam.position_counts, target_build, position_weights)

SnapshotNominations(strategy) ==
  suggest_nominations(SnapshotAvailablePlayers, SnapshotMyTeam.position_counts, target_build, SnapshotPriorities, strategy, DefaultMaxSuggestions)

\* C22: in a script run, the ledger fetched at the start is the rows the
\* Draft worksheet had then (a prefix of its rows now), and the available
\* players, the team bundle, the priority scores, the opponent summary and
\* the nominations of the run are those computed on that fetched ledger,
\* whatever rows the worksheet has gained since.
C22_ResultsFromFetchedSnapshot ==
  (IsCycle /\ HasResult("fetched"))
  => /\ Len(result.fetched) <= Len(draft_sheet)
     /\ result.fetched = SubSeq(draft_sheet, 1, Len(result.fetched))
     /\ HasResult("available_players")
          => result.available_players = SnapshotAvailablePlayers
     /\ HasResult("my_team") => result.my_team = SnapshotMyTeam
     /\ result.pc \in {"opponents", "nominations", "done"}
          => priority_gaps = SnapshotPriorities
     /\ HasResult("opponent_summary")
          => [raised |-> FALSE, rows |-> result.opponent_summary]
               \in summarize_opponents(result.fetched, MyName, DefaultBudget)
     /\ HasResult("drainers")
          => /\ result.drainers \in SnapshotNominations("drain")
             /\ result.decoys \in SnapshotNominations("decoy")
             /\ result.targets \in SnapshotNominations("target")

\* a run completed on a ledger of one pick while the worksheet gained a
\* second one, whose player is still among the available players of the run
C22_Witness ==
  /\ IsCycle
  /\ result.pc = "done"
  /\ Len(result.fetched) = 1
  /\ Len(draft_sheet) = 2
  /\ \E i \in DOMAIN result.available_players :
       NormalizeName(result.available_players[i].Player) = NormalizeName(draft_sheet[2].Player)

\* C24: get_my_team and summarize_opponents of one run for the same caller
\* count each ledger row once: the size of the roster plus the sum of
\* "Players Drafted" over the opponent summary is the number of ledger rows.
C24_RosterAndOpponentsPartitionLedger ==
  (IsCycle /\ HasResult("my_team") /\ HasResult("opponent_summary"))
  => LET drafted == [i \in DOMAIN result.opponent_summary |-> result.opponent_summary[i].PlayersDrafted]
     IN  Len(result.my_team.roster) + SumOver(drafted, DOMAIN drafted) = Len(result.fetched)

====
